---- MODULE Spec2Model ----
(***************************************************************************)
(* Call-hierarchy tree adapter (callHierarchyTree.ts): the Call entity,    *)
(* the asynchronous DataSource, the recursive IdentityProvider and the     *)
(* Sorter.                                                                 *)
(*                                                                         *)
(* Strings are sequences of one-character strings, so that concatenation,  *)
(* JSON serialisation and lexicographic comparison are computed and not    *)
(* assumed.  A Call object is an index into heap; parent = 0 is the        *)
(* undefined parent.                                                       *)
(***************************************************************************)
EXTENDS Integers, Sequences, FiniteSets, TLC

VARIABLES
    direction,  \* what the injected getDirection accessor returns now
    model,      \* the CallHierarchyModel of the session (read-only)
    heap,       \* every Call constructed so far, in construction order
    invs,       \* the getChildren invocations issued by the tree host
    out         \* the values returned by the synchronous operations

vars == <<direction, model, heap, invs, out>>

----------------------------------------------------------------------------
(* Bounds *)

MaxCalls == 6        \* Calls constructed in one behaviour
MaxInvocations == 3  \* getChildren invocations in one behaviour
MaxDepth == 2        \* length of the parent chains handed to getId

----------------------------------------------------------------------------
(* External types: CallHierarchyDirection, URI, IRange, CallHierarchyItem *)

CallsTo == "incomingCalls"
CallsFrom == "outgoingCalls"
Directions == {CallsTo, CallsFrom}

\* The string a direction contributes to a string concatenation.
DirectionString(d) ==
    IF d = CallsFrom
    THEN <<"o","u","t","g","o","i","n","g","C","a","l","l","s">>
    ELSE <<"i","n","c","o","m","i","n","g","C","a","l","l","s">>

IRange(sl, sc, el, ec) ==
    [startLineNumber |-> sl, startColumn |-> sc,
     endLineNumber |-> el, endColumn |-> ec]

CallHierarchyItem(u, r) == [uri |-> u, range |-> r]

\* A resource identifier is modelled by its string form.
UriA == <<"a">>
UriAB == <<"a","b">>
UriB == <<"b">>

ItemA == CallHierarchyItem(UriA, IRange(1, 1, 1, 5))
ItemB == CallHierarchyItem(UriB, IRange(2, 1, 2, 5))
ItemC == CallHierarchyItem(UriAB, IRange(12, 3, 12, 9))
Items == {ItemA, ItemB, ItemC}

R1 == IRange(1, 3, 1, 4)
R2 == IRange(2, 2, 2, 3)
R3 == IRange(12, 5, 12, 6)

\* Two sessions.  In both the call graph is cyclic (A -> B -> A), one edge
\* has two call sites and one edge has none.
Model1 ==
    [roots |-> <<ItemA>>,
     outgoing |-> [i \in Items |->
        IF i = ItemA THEN <<[to |-> ItemB, fromRanges |-> <<R1>>],
                            [to |-> ItemC, fromRanges |-> <<>>]>>
        ELSE IF i = ItemB THEN <<[to |-> ItemA, fromRanges |-> <<R2, R3>>]>>
        ELSE <<>>],
     incoming |-> [i \in Items |->
        IF i = ItemA THEN <<[from |-> ItemB, fromRanges |-> <<R2, R3>>]>>
        ELSE IF i = ItemB THEN <<[from |-> ItemA, fromRanges |-> <<R1>>]>>
        ELSE <<[from |-> ItemA, fromRanges |-> <<>>]>>]]

Model2 ==
    [roots |-> <<ItemB, ItemC>>,
     outgoing |-> [i \in Items |->
        IF i = ItemB THEN <<[to |-> ItemC, fromRanges |-> <<R2>>]>>
        ELSE IF i = ItemC THEN <<[to |-> ItemB, fromRanges |-> <<R3, R3>>]>>
        ELSE <<>>],
     incoming |-> [i \in Items |->
        IF i = ItemB THEN <<[from |-> ItemC, fromRanges |-> <<R3, R3>>]>>
        ELSE IF i = ItemC THEN <<[from |-> ItemB, fromRanges |-> <<R2>>],
                                 [from |-> ItemA, fromRanges |-> <<>>]>>
        ELSE <<>>]]

Models == {Model1, Model2}

ModelErrors == {"provider timeout", "symbol not resolvable"}
NoError == "none"

----------------------------------------------------------------------------
(* Call *)

\* Location[] | undefined
Undefined == [defined |-> FALSE, value |-> <<>>]
Defined(s) == [defined |-> TRUE, value |-> s]

Location(r, u) == [range |-> r, uri |-> u]

Call(item, locations, parent) ==
    [item |-> item, locations |-> locations, model |-> "model",
     parent |-> parent]

----------------------------------------------------------------------------
(* DataSource.getChildren *)

\* element.roots.map((root) => new Call(root, undefined, element, undefined))
RootCall(root) == Call(root, Undefined, 0)

\* Variants of the call-site uri: the target's uri, and the accessor read
\* again when the continuation runs.
OutgoingLocationUriOfTarget(item, call) == call.to.uri

OutgoingLocationUriReread(item, call) ==
    IF direction = CallsFrom THEN item.uri ELSE call.to.uri

\* the uri of a call site of an outgoing result
OutgoingLocationUri(item, call) == item.uri

IncomingLocationUriOfItem(item, call) == item.uri

\* the uri of a call site of an incoming result
IncomingLocationUri(item, call) == call.from.uri

\* Variant: no call site, no location array.
MapRangesOrUndefined(fromRanges, u) ==
    IF fromRanges = <<>>
    THEN Undefined
    ELSE Defined([k \in 1..Len(fromRanges) |-> Location(fromRanges[k], u)])

\* call.fromRanges.map((range) => ({ range, uri }))
MapRanges(fromRanges, u) ==
    Defined([k \in 1..Len(fromRanges) |-> Location(fromRanges[k], u)])

OutgoingChild(element, call) ==
    Call(call.to,
         MapRanges(call.fromRanges, OutgoingLocationUri(heap[element].item, call)),
         element)

IncomingChild(element, call) ==
    Call(call.from,
         MapRanges(call.fromRanges, IncomingLocationUri(heap[element].item, call)),
         element)

\* The ids the Calls appended to the heap get.
NewIds(n) == [k \in 1..n |-> Len(heap) + k]

Invocation(element, pc, dir, ops, children, thrown, rejection) ==
    [element |-> element, pc |-> pc, dirAtCall |-> dir, dirReads |-> IF element = 0 THEN 0 ELSE 1,
     ops |-> ops, children |-> children, thrown |-> thrown,
     rejection |-> rejection, dirAtResume |-> dir]

\* getChildren(model): no suspension, one Call per root.
GetChildrenModel ==
    /\ Len(invs) < MaxInvocations
    /\ Len(heap) + Len(model.roots) <= MaxCalls
    /\ heap' = heap \o [k \in 1..Len(model.roots) |-> RootCall(model.roots[k])]
    /\ invs' = Append(invs, Invocation(0, "fulfilled", direction, <<>>,
                                       NewIds(Len(model.roots)), NoError, NoError))
    /\ UNCHANGED <<direction, model, out>>

\* getChildren(call) up to its await: the accessor is read, the branch is
\* taken and the resolution call is issued.
GetChildrenCall(element) ==
    /\ Len(invs) < MaxInvocations
    /\ element \in DOMAIN heap
    /\ invs' = Append(invs,
          IF direction = CallsFrom
          THEN Invocation(element, "awaitOutgoing", direction,
                          <<"resolveOutgoingCalls">>, <<>>, NoError, NoError)
          ELSE Invocation(element, "awaitIncoming", direction,
                          <<"resolveIncomingCalls">>, <<>>, NoError, NoError))
    /\ UNCHANGED <<direction, model, heap, out>>

Pending(i) == invs[i].pc \in {"awaitOutgoing", "awaitIncoming"}

\* Variant: the element kept in a field of the DataSource that every
\* invocation overwrites.
ResumeElementShared(i) ==
    LET js == {j \in DOMAIN invs : invs[j].element # 0}
    IN invs[CHOOSE j \in js : \A k \in js : k <= j].element

\* const { model, item } = element: the continuation's own element.
ResumeElement(i) == invs[i].element

\* The resolution call completes: the continuation maps the results.
ResolveFulfilled(i) ==
    /\ i \in DOMAIN invs
    /\ Pending(i)
    /\ LET element == ResumeElement(i)
           item == heap[element].item
           children ==
               IF invs[i].pc = "awaitOutgoing"
               THEN [k \in 1..Len(model.outgoing[item]) |->
                        OutgoingChild(element, model.outgoing[item][k])]
               ELSE [k \in 1..Len(model.incoming[item]) |->
                        IncomingChild(element, model.incoming[item][k])]
       IN /\ Len(heap) + Len(children) <= MaxCalls
          /\ heap' = heap \o children
          /\ invs' = [invs EXCEPT ![i].pc = "fulfilled",
                                  ![i].children = NewIds(Len(children)),
                                  ![i].dirAtResume = direction]
    /\ UNCHANGED <<direction, model, out>>

\* Variant: the failure is caught and an empty child list returned.
ResolveRejectedSwallowed(i, e) ==
    /\ i \in DOMAIN invs
    /\ Pending(i)
    /\ invs' = [invs EXCEPT ![i].pc = "fulfilled",
                            ![i].thrown = e,
                            ![i].dirAtResume = direction]
    /\ UNCHANGED <<direction, model, heap, out>>

\* The resolution call fails: the await throws and getChildren rejects.
ResolveRejected(i, e) ==
    /\ i \in DOMAIN invs
    /\ Pending(i)
    /\ invs' = [invs EXCEPT ![i].pc = "rejected",
                            ![i].thrown = e,
                            ![i].rejection = e,
                            ![i].dirAtResume = direction]
    /\ UNCHANGED <<direction, model, heap, out>>

\* The host toggles the session-wide direction.
ToggleDirection ==
    /\ direction' = IF direction = CallsFrom THEN CallsTo ELSE CallsFrom
    /\ UNCHANGED <<model, heap, invs, out>>

Init ==
    /\ direction \in Directions
    /\ model \in Models
    /\ heap = <<>>
    /\ invs = <<>>
    /\ out = <<>>

Next ==
    \/ GetChildrenModel
    \/ \E element \in 1..MaxCalls : GetChildrenCall(element)
    \/ \E i \in 1..MaxInvocations : ResolveFulfilled(i)
    \/ \E i \in 1..MaxInvocations, e \in ModelErrors : ResolveRejected(i, e)
    \/ ToggleDirection

Spec == Init /\ [][Next]_vars

----------------------------------------------------------------------------
(* strings.compare and Range.compareRangesUsingStarts *)

\* The UTF-16 code unit of a character of the uris.
CharCode(ch) == IF ch = "a" THEN 97 ELSE IF ch = "b" THEN 98 ELSE 99

\* compare(a, b): a < b ? -1 : a > b ? 1 : 0, on strings.
RECURSIVE compare(_, _)
compare(a, b) ==
    IF a = <<>> /\ b = <<>> THEN 0
    ELSE IF a = <<>> THEN -1
    ELSE IF b = <<>> THEN 1
    ELSE IF CharCode(Head(a)) < CharCode(Head(b)) THEN -1
    ELSE IF CharCode(Head(a)) > CharCode(Head(b)) THEN 1
    ELSE compare(Tail(a), Tail(b))

\* Ranges ordered by start position: row, then column.
compareRangesUsingStarts(a, b) ==
    IF a.startLineNumber = b.startLineNumber
    THEN a.startColumn - b.startColumn
    ELSE a.startLineNumber - b.startLineNumber

\* uri.toString(): a resource identifier is modelled by its string form.
UriToString(u) == u

----------------------------------------------------------------------------
(* Call.compare and Sorter.compare *)

\* Variant: the tie-break is taken whenever the uri is not smaller.
CallCompareOneSided(a, b) ==
    LET res == compare(UriToString(a.item.uri), UriToString(b.item.uri))
    IN IF res >= 0
       THEN compareRangesUsingStarts(a.item.range, b.item.range)
       ELSE res

\* Variant: the ranges are the primary key.
CallCompareRangeFirst(a, b) ==
    LET res == compareRangesUsingStarts(a.item.range, b.item.range)
    IN IF res = 0
       THEN compare(UriToString(a.item.uri), UriToString(b.item.uri))
       ELSE res

CallCompare(a, b) ==
    LET res == compare(UriToString(a.item.uri), UriToString(b.item.uri))
    IN IF res = 0
       THEN compareRangesUsingStarts(a.item.range, b.item.range)
       ELSE res

SorterCompare(element, otherElement) == CallCompare(element, otherElement)

\* The host's sorter compares two Calls.
Compare(i, j) ==
    /\ i \in DOMAIN heap
    /\ j \in DOMAIN heap
    /\ out' = <<[op |-> "compare", element |-> i, otherElement |-> j,
                 res |-> SorterCompare(heap[i], heap[j])]>>
    /\ UNCHANGED <<direction, model, heap, invs>>

\* The Calls handed to the sorter: three uris, four ranges (two of them
\* with the same start), as roots or as a chain of children.
CompareUris == {UriA, UriAB, UriB}
CompareRanges ==
    {IRange(1, 1, 1, 5), IRange(1, 2, 1, 5), IRange(2, 1, 2, 5), IRange(1, 1, 3, 1)}
CompareItems == {CallHierarchyItem(u, r) : u \in CompareUris, r \in CompareRanges}

InitCompare ==
    /\ direction = CallsFrom
    /\ model = Model1
    /\ invs = <<>>
    /\ out = <<>>
    /\ \E a, b, c \in CompareItems, chained \in BOOLEAN :
          heap = IF chained
                 THEN <<RootCall(a),
                        Call(b, Defined(<<Location(R1, a.uri)>>), 1),
                        Call(c, Defined(<<>>), 2)>>
                 ELSE <<RootCall(a), RootCall(b), RootCall(c)>>

NextCompare == \E i, j \in 1..3 : Compare(i, j)

SpecCompare == InitCompare /\ [][NextCompare]_vars

----------------------------------------------------------------------------
(* IdentityProvider.getId *)

Digit(n) == <<"0","1","2","3","4","5","6","7","8","9">>[n + 1]

\* The decimal digits JSON.stringify writes for a number n >= 0.
RECURSIVE NumberToJSON(_)
NumberToJSON(n) ==
    IF n < 10 THEN <<Digit(n)>>
    ELSE NumberToJSON(n \div 10) \o <<Digit(n % 10)>>

\* JSON.stringify of a string without characters to escape: quoted.
StringToJSON(str) == <<"\"">> \o str \o <<"\"">>

\* JSON.stringify(element.item.uri)
UriToJSON(u) == StringToJSON(u)

\* JSON.stringify(element.item.range): the four own properties, in order.
RangeToJSON(r) ==
    <<"{">>
    \o StringToJSON(<<"s","t","a","r","t","L","i","n","e","N","u","m","b","e","r">>)
    \o <<":">> \o NumberToJSON(r.startLineNumber) \o <<",">>
    \o StringToJSON(<<"s","t","a","r","t","C","o","l","u","m","n">>)
    \o <<":">> \o NumberToJSON(r.startColumn) \o <<",">>
    \o StringToJSON(<<"e","n","d","L","i","n","e","N","u","m","b","e","r">>)
    \o <<":">> \o NumberToJSON(r.endLineNumber) \o <<",">>
    \o StringToJSON(<<"e","n","d","C","o","l","u","m","n">>)
    \o <<":">> \o NumberToJSON(r.endColumn)
    \o <<"}">>

\* Variant: the parent's id is not appended.
getIdWithoutParent(element) ==
    DirectionString(direction) \o UriToJSON(heap[element].item.uri)
        \o RangeToJSON(heap[element].item.range)

\* Variant: the direction is left out of the id.
RECURSIVE getIdWithoutDirection(_)
getIdWithoutDirection(element) ==
    UriToJSON(heap[element].item.uri) \o RangeToJSON(heap[element].item.range)
        \o (IF heap[element].parent # 0
            THEN getIdWithoutDirection(heap[element].parent)
            ELSE <<>>)

RECURSIVE getId(_)
getId(element) ==
    DirectionString(direction) \o UriToJSON(heap[element].item.uri)
        \o RangeToJSON(heap[element].item.range)
        \o (IF heap[element].parent # 0 THEN getId(heap[element].parent) ELSE <<>>)

\* The host asks for the id of a Call; out keeps the last two answers.
GetId(element) ==
    /\ element \in DOMAIN heap
    /\ out' = (IF Len(out) < 2 THEN out ELSE Tail(out))
                 \o <<[op |-> "getId", element |-> element, dir |-> direction,
                       id |-> getId(element)]>>
    /\ UNCHANGED <<direction, model, heap, invs>>

\* The trees handed to the identity provider: two parent chains of up to
\* MaxDepth Calls.  The items differ in the uri only, or in the range end
\* only.
IdItems ==
    {ItemA, CallHierarchyItem(UriA, IRange(1, 1, 11, 5)),
     CallHierarchyItem(UriAB, IRange(1, 1, 1, 5))}
IdChains == UNION {[1..n -> IdItems] : n \in 1..MaxDepth}

\* The Calls of a chain, root first, stored from heap index base + 1.
ChainCalls(items, base) ==
    [k \in 1..Len(items) |->
        IF k = 1 THEN RootCall(items[k])
        ELSE Call(items[k], Defined(<<>>), base + k - 1)]

InitId ==
    /\ direction \in Directions
    /\ model = Model1
    /\ invs = <<>>
    /\ out = <<>>
    /\ \E xs, ys \in IdChains :
          heap = ChainCalls(xs, 0) \o ChainCalls(ys, Len(xs))

NextId ==
    \/ \E element \in 1..(2 * MaxDepth) : GetId(element)
    \/ ToggleDirection

SpecId == InitId /\ [][NextId]_vars

----------------------------------------------------------------------------
(* Properties of DataSource.getChildren, checked under Spec *)

CallInvocations == {i \in DOMAIN invs : invs[i].element # 0}
Fulfilled(i) == invs[i].pc = "fulfilled"
ChildrenOf(i) == [k \in DOMAIN invs[i].children |-> heap[invs[i].children[k]]]
ItemOf(i) == heap[invs[i].element].item

\* The locations a result's call sites must get, all in the resource u.
SitesIn(fromRanges, u, locations) ==
    /\ locations.defined
    /\ Len(locations.value) = Len(fromRanges)
    /\ \A j \in 1..Len(fromRanges) :
          /\ locations.value[j].range = fromRanges[j]
          /\ locations.value[j].uri = u

\* C1: an outgoing expansion returns one Call per result, in order, with
\* item = to, parent = the expanded element and every location in the
\* expanded item's resource.
C1_OutgoingExpansion ==
    \A i \in CallInvocations :
        (Fulfilled(i) /\ invs[i].dirAtCall = CallsFrom) =>
            LET results == model.outgoing[ItemOf(i)]
                kids == ChildrenOf(i)
            IN /\ Len(kids) = Len(results)
               /\ \A k \in 1..Len(results) :
                     /\ kids[k].item = results[k].to
                     /\ kids[k].parent = invs[i].element
                     /\ SitesIn(results[k].fromRanges, ItemOf(i).uri,
                                kids[k].locations)

\* An outgoing expansion whose target lies in another resource than the
\* expanded item and has a call site.
C1_Witness ==
    \E i \in CallInvocations :
        /\ Fulfilled(i) /\ invs[i].dirAtCall = CallsFrom
        /\ \E k \in 1..Len(invs[i].children) :
              LET kid == heap[invs[i].children[k]]
              IN /\ kid.item.uri # ItemOf(i).uri
                 /\ kid.locations.value # <<>>
                 /\ kid.locations.value[1].uri = ItemOf(i).uri

\* C2: an incoming expansion returns one Call per result, in order, with
\* item = from, parent = the expanded element and every location in the
\* discovered caller's resource.
C2_IncomingExpansion ==
    \A i \in CallInvocations :
        (Fulfilled(i) /\ invs[i].dirAtCall = CallsTo) =>
            LET results == model.incoming[ItemOf(i)]
                kids == ChildrenOf(i)
            IN /\ Len(kids) = Len(results)
               /\ \A k \in 1..Len(results) :
                     /\ kids[k].item = results[k].from
                     /\ kids[k].parent = invs[i].element
                     /\ SitesIn(results[k].fromRanges, results[k].from.uri,
                                kids[k].locations)

C2_Witness ==
    \E i \in CallInvocations :
        /\ Fulfilled(i) /\ invs[i].dirAtCall = CallsTo
        /\ \E k \in 1..Len(invs[i].children) :
              LET kid == heap[invs[i].children[k]]
              IN /\ kid.item.uri # ItemOf(i).uri
                 /\ kid.locations.value # <<>>
                 /\ kid.locations.value[1].uri = kid.item.uri

\* C3: every Call has locations undefined exactly when its parent is
\* undefined; an expansion of the model returns one such root per root
\* item, and an expansion of a Call returns Calls with both defined.
C3_RootInvariant ==
    /\ \A c \in DOMAIN heap :
          (~heap[c].locations.defined) <=> (heap[c].parent = 0)
    /\ \A i \in DOMAIN invs :
          IF invs[i].element = 0
          THEN /\ Len(invs[i].children) = Len(model.roots)
               /\ \A k \in 1..Len(model.roots) :
                     heap[invs[i].children[k]] =
                        [item |-> model.roots[k], locations |-> Undefined,
                         model |-> "model", parent |-> 0]
          ELSE \A k \in DOMAIN invs[i].children :
                  /\ heap[invs[i].children[k]].locations.defined
                  /\ heap[invs[i].children[k]].parent # 0

\* Roots exist beside a child that has no call site (fromRanges empty).
C3_Witness ==
    /\ \E i \in DOMAIN invs : invs[i].element = 0 /\ invs[i].children # <<>>
    /\ \E i \in CallInvocations : \E k \in DOMAIN invs[i].children :
          /\ heap[invs[i].children[k]].locations = Defined(<<>>)
          /\ heap[invs[i].children[k]].parent = invs[i].element

\* C8: a failed resolution makes getChildren reject with the same failure
\* and no Calls, and every invocation on a Call makes exactly one
\* resolution call.
C8_ErrorPropagation ==
    \A i \in CallInvocations :
        /\ Len(invs[i].ops) = 1
        /\ invs[i].thrown # NoError =>
              /\ invs[i].pc = "rejected"
              /\ invs[i].rejection = invs[i].thrown
              /\ invs[i].children = <<>>
              /\ \A c \in DOMAIN heap : heap[c].parent = invs[i].element =>
                    \E j \in CallInvocations \ {i} :
                        \E k \in DOMAIN invs[j].children : invs[j].children[k] = c

C8_Witness ==
    \E i \in CallInvocations :
        /\ invs[i].thrown \in ModelErrors
        /\ invs[i].pc = "rejected"

\* What an expansion of element yields when it runs alone in direction d.
Alone(element, d) ==
    LET item == heap[element].item
    IN IF d = CallsFrom
       THEN [k \in 1..Len(model.outgoing[item]) |->
               [item |-> model.outgoing[item][k].to,
                locations |-> Defined([j \in 1..Len(model.outgoing[item][k].fromRanges) |->
                    [range |-> model.outgoing[item][k].fromRanges[j], uri |-> item.uri]]),
                model |-> "model", parent |-> element]]
       ELSE [k \in 1..Len(model.incoming[item]) |->
               [item |-> model.incoming[item][k].from,
                locations |-> Defined([j \in 1..Len(model.incoming[item][k].fromRanges) |->
                    [range |-> model.incoming[item][k].fromRanges[j],
                     uri |-> model.incoming[item][k].from.uri]]),
                model |-> "model", parent |-> element]]

\* Every expansion that has returned children returned what it would alone.
ReturnedAsAlone ==
    \A i \in CallInvocations :
        Fulfilled(i) => ChildrenOf(i) = Alone(invs[i].element, invs[i].dirAtCall)

\* C9: whatever the order in which pending expansions complete or fail,
\* each returns what it would return alone, and no step changes a Call
\* that exists.
C9_IndependentExpansions ==
    [][/\ \A c \in DOMAIN heap : c \in DOMAIN heap' /\ heap'[c] = heap[c]
       /\ ReturnedAsAlone']_vars

\* Two expansions of different Calls were pending together; the later one
\* has returned children while the earlier one is pending or has failed.
C9_Witness ==
    \E i, j \in CallInvocations :
        /\ i < j
        /\ invs[i].element # invs[j].element
        /\ invs[i].pc # "fulfilled"
        /\ Fulfilled(j) /\ invs[j].children # <<>>

\* C10: the accessor is read once, before the await; that value selects
\* the resolution operation and the uri of the locations, whatever the
\* direction is when the resolution completes.
C10_DirectionSampledOnce ==
    \A i \in CallInvocations :
        /\ invs[i].dirReads = 1
        /\ invs[i].ops = IF invs[i].dirAtCall = CallsFrom
                         THEN <<"resolveOutgoingCalls">>
                         ELSE <<"resolveIncomingCalls">>
        /\ Fulfilled(i) =>
              \A k \in DOMAIN invs[i].children :
                 LET kid == heap[invs[i].children[k]]
                 IN \A j \in DOMAIN kid.locations.value :
                       kid.locations.value[j].uri =
                          IF invs[i].dirAtCall = CallsFrom
                          THEN ItemOf(i).uri ELSE kid.item.uri

\* The direction was toggled while the resolution was pending, and the
\* two candidate uris differ.
C10_Witness ==
    \E i \in CallInvocations :
        /\ Fulfilled(i)
        /\ invs[i].dirAtResume # invs[i].dirAtCall
        /\ \E k \in DOMAIN invs[i].children :
              LET kid == heap[invs[i].children[k]]
              IN kid.locations.value # <<>> /\ kid.item.uri # ItemOf(i).uri

----------------------------------------------------------------------------
(* Properties of IdentityProvider.getId, checked under SpecId *)

\* The items of a Call's ancestor chain: the node, its parent, ... the root.
RECURSIVE ItemChain(_)
ItemChain(c) ==
    <<heap[c].item>>
        \o (IF heap[c].parent # 0 THEN ItemChain(heap[c].parent) ELSE <<>>)

\* C4: two ids are equal exactly when the directions in effect were the
\* same and the two ancestor chains have the same length and the same
\* (uri, range) at every level.
C4_IdentityEquality ==
    Len(out) = 2 =>
        ((out[1].id = out[2].id) <=>
            (/\ out[1].dir = out[2].dir
             /\ ItemChain(out[1].element) = ItemChain(out[2].element)))

\* Two different Calls with equal chains of two levels got the same id.
C4_Witness ==
    /\ Len(out) = 2
    /\ out[1].element # out[2].element
    /\ heap[out[1].element].parent # 0
    /\ out[1].id = out[2].id

\* C5: an id computed under one direction never equals an id computed
\* under the other, for the same node or for any two nodes.
C5_DirectionSeparates ==
    (Len(out) = 2 /\ out[1].dir # out[2].dir) => out[1].id # out[2].id

\* The same node was identified under both directions.
C5_Witness ==
    /\ Len(out) = 2
    /\ out[1].element = out[2].element
    /\ out[1].dir = CallsFrom
    /\ out[2].dir = CallsTo

----------------------------------------------------------------------------
(* Properties of Call.compare and Sorter.compare, checked under SpecCompare *)

Sign(n) == IF n < 0 THEN -1 ELSE IF n > 0 THEN 1 ELSE 0

\* (uri, range start) of a Call
SortKey(c) == <<c.item.uri, c.item.range.startLineNumber, c.item.range.startColumn>>

\* C6: on Calls with distinct (uri, range start), compare is reflexive
\* (compare(a, a) = 0), antisymmetric in sign and transitive, and
\* Sorter.compare is Call.compare.
C6_OrderingTotality ==
    \A i, j, k \in DOMAIN heap :
        LET a == heap[i]
            b == heap[j]
            c == heap[k]
        IN /\ SorterCompare(a, b) = CallCompare(a, b)
           /\ SorterCompare(a, a) = 0
           /\ SortKey(a) # SortKey(b) =>
                 Sign(SorterCompare(a, b)) = -Sign(SorterCompare(b, a))
           /\ (/\ SortKey(a) # SortKey(b)
               /\ SortKey(b) # SortKey(c)
               /\ SortKey(a) # SortKey(c)
               /\ SorterCompare(a, b) < 0
               /\ SorterCompare(b, c) < 0) => SorterCompare(a, c) < 0

\* The sorter answered on a heap of three Calls in strictly ascending order.
C6_Witness ==
    /\ out # <<>>
    /\ out[1].op = "compare"
    /\ out[1].element = 2 /\ out[1].otherElement = 1 /\ out[1].res > 0
    /\ CallCompare(heap[1], heap[2]) < 0
    /\ CallCompare(heap[2], heap[3]) < 0
    /\ heap[1].item.uri # heap[2].item.uri
    /\ heap[2].item.uri = heap[3].item.uri

\* s sorts before t as a string: t continues s, or they first differ at a
\* character that is smaller in s.
StringLess(s, t) ==
    \E n \in 1..Len(t) :
        /\ \A m \in 1..(n - 1) : m <= Len(s) /\ s[m] = t[m]
        /\ \/ n = Len(s) + 1
           \/ n <= Len(s) /\ CharCode(s[n]) < CharCode(t[n])

StringOrder(s, t) == IF StringLess(s, t) THEN -1 ELSE IF StringLess(t, s) THEN 1 ELSE 0

\* Range starts compared by row, then by column.
StartOrder(r, q) ==
    IF \/ r.startLineNumber < q.startLineNumber
       \/ r.startLineNumber = q.startLineNumber /\ r.startColumn < q.startColumn
    THEN -1
    ELSE IF r.startLineNumber = q.startLineNumber /\ r.startColumn = q.startColumn
    THEN 0
    ELSE 1

\* C7: different uris are ordered as strings whatever the ranges; equal
\* uris are ordered by range start, row then column; the locations and the
\* parent of the Calls play no part.
C7_TieBreak ==
    \A i, j \in DOMAIN heap :
        LET a == heap[i]
            b == heap[j]
        IN /\ a.item.uri # b.item.uri =>
                 Sign(CallCompare(a, b)) = StringOrder(a.item.uri, b.item.uri)
           /\ a.item.uri = b.item.uri =>
                 Sign(CallCompare(a, b)) = StartOrder(a.item.range, b.item.range)
           /\ CallCompare(a, b) = CallCompare(RootCall(a.item), RootCall(b.item))

\* The sorter answered for a child and its parent: same uri, same row, the
\* child's column smaller; and the heap holds a Call of another uri whose
\* range order is the opposite of its uri order.
C7_Witness ==
    /\ out # <<>>
    /\ out[1].op = "compare"
    /\ out[1].element = 2 /\ out[1].otherElement = 1 /\ out[1].res < 0
    /\ heap[2].parent = 1
    /\ heap[2].item.uri = heap[1].item.uri
    /\ heap[2].item.range.startLineNumber = heap[1].item.range.startLineNumber
    /\ StringOrder(heap[3].item.uri, heap[1].item.uri) = 1
    /\ StartOrder(heap[3].item.range, heap[1].item.range) = -1

====
